---------------------------- MODULE Spec2Model ----------------------------
(* Model of Code/Scripts/solver_inp_to_xml.py: the DataNode tree built by  *)
(* DataNode.parse from the lines of a solver.inp file, and the xml lines   *)
(* produced from it by DataNode.format_for_xml / convert_to_xml.           *)
(* A Python str is modelled as a sequence of one-character strings, so     *)
(* that strip, split, rsplit and replace are computed as Python does.      *)
EXTENDS Integers, Sequences, FiniteSets, TLC

(***************************************************************************)
(* Bound of the model: the number of lines of the input file.              *)
(***************************************************************************)
MaxLines == 4

(***************************************************************************)
(* Python str methods used by the script.                                  *)
(***************************************************************************)
Whitespace == {" ", "\t", "\n"}

RECURSIVE lstrip(_)
lstrip(s) ==
    IF s # <<>> /\ Head(s) \in Whitespace THEN lstrip(Tail(s)) ELSE s

RECURSIVE rstrip(_)
rstrip(s) ==
    IF s # <<>> /\ s[Len(s)] \in Whitespace
    THEN rstrip(SubSeq(s, 1, Len(s) - 1)) ELSE s

strip(s) == rstrip(lstrip(s))

contains(s, c) == \E i \in 1..Len(s) : s[i] = c

startswith(s, c) == s # <<>> /\ s[1] = c

\* first position >= i at which sep occurs in s, 0 when there is none
RECURSIVE find(_, _, _)
find(s, sep, i) ==
    IF i + Len(sep) - 1 > Len(s) THEN 0
    ELSE IF SubSeq(s, i, i + Len(sep) - 1) = sep THEN i
    ELSE find(s, sep, i + 1)

\* s.split(sep): cut at every occurrence of sep
RECURSIVE split(_, _)
split(s, sep) ==
    LET i == find(s, sep, 1) IN
    IF i = 0 THEN <<s>>
    ELSE <<SubSeq(s, 1, i - 1)>> \o split(SubSeq(s, i + Len(sep), Len(s)), sep)

\* s.split(sep, 1): cut at the first occurrence of sep only
split1(s, sep) ==
    LET i == find(s, sep, 1) IN
    IF i = 0 THEN <<s>>
    ELSE <<SubSeq(s, 1, i - 1), SubSeq(s, i + Len(sep), Len(s))>>

\* s.rsplit(sep) without maxsplit cuts at every occurrence, like split
rsplit(s, sep) == split(s, sep)

\* s.replace(c, new) for a one-character c
RECURSIVE replace(_, _, _)
replace(s, c, new) ==
    IF s = <<>> THEN <<>>
    ELSE (IF Head(s) = c THEN new ELSE <<Head(s)>>) \o replace(Tail(s), c, new)

RECURSIVE tabs(_)
tabs(n) == IF n <= 0 THEN <<>> ELSE <<"\t">> \o tabs(n - 1)

(***************************************************************************)
(* String literals of the script.                                          *)
(***************************************************************************)
S_svFSIFile == <<"s", "v", "F", "S", "I", "F", "i", "l", "e">>
S_version0  == <<"0", ".", "1">>
S_LS_type   == <<"L", "S", " ", "t", "y", "p", "e">>
S_LS        == <<"L", "S">>
S_true      == <<"t", "r", "u", "e">>
S_false     == <<"f", "a", "l", "s", "e">>
S_colon     == <<":", " ">>
S_brace     == <<" ", "{">>
S_space     == <<" ">>
S_newline   == <<"\n">>
S_gsp_open  == <<"<", "G", "e", "n", "e", "r", "a", "l", "S", "i", "m", "u", "l", "a", "t", "i", "o", "n", "P", "a", "r", "a", "m", "e", "t", "e", "r", "s", ">", "\n">>
S_gsp_close == <<"<", "/", "G", "e", "n", "e", "r", "a", "l", "S", "i", "m", "u", "l", "a", "t", "i", "o", "n", "P", "a", "r", "a", "m", "e", "t", "e", "r", "s", ">", "\n">>
S_header    == <<"<", "?", "x", "m", "l", " ", "v", "e", "r", "s", "i", "o", "n", "=", "\"", "1", ".", "0", "\"", " ", "e", "n", "c", "o", "d", "i", "n", "g", "=", "\"", "U", "T", "F", "-", "8", "\"", "?", ">", "\n">>

A_version == <<"v", "e", "r", "s", "i", "o", "n">>
A_name    == <<"n", "a", "m", "e">>
A_type    == <<"t", "y", "p", "e">>
A_id      == <<"i", "d">>
A_model   == <<"m", "o", "d", "e", "l">>

\* self.key_to_attr, as the set of its (key, attribute) items
key_to_attr ==
    { <<S_svFSIFile, A_version>>,
      <<<<"A", "d", "d", "_", "f", "a", "c", "e">>, A_name>>,
      <<<<"A", "d", "d", "_", "m", "e", "s", "h">>, A_name>>,
      <<<<"A", "d", "d", "_", "p", "r", "o", "j", "e", "c", "t", "i", "o", "n">>, A_name>>,
      <<<<"A", "d", "d", "_", "e", "q", "u", "a", "t", "i", "o", "n">>, A_type>>,
      <<<<"D", "o", "m", "a", "i", "n">>, A_id>>,
      <<<<"V", "i", "s", "c", "o", "s", "i", "t", "y">>, A_model>>,
      <<<<"C", "o", "n", "s", "t", "i", "t", "u", "t", "i", "v", "e", "_", "m", "o", "d", "e", "l">>, A_type>>,
      <<S_LS, A_type>>,
      <<<<"L", "i", "n", "e", "a", "r", "_", "a", "l", "g", "e", "b", "r", "a">>, A_type>>,
      <<<<"O", "u", "t", "p", "u", "t">>, A_type>>,
      <<<<"A", "d", "d", "_", "B", "C">>, A_name>> }

attr_keys == { kv[1] : kv \in key_to_attr }

attr_of(key) == (CHOOSE kv \in key_to_attr : kv[1] = key)[2]

(***************************************************************************)
(* The input: every file of at most MaxLines lines drawn from LineSet.     *)
(***************************************************************************)
L_blank   == <<>>
L_comment == <<"#", "c">>
L_leaf    == <<" ", "a", " ", "b", ":", " ", "t">>
L_ls      == <<"L", "S", " ", "t", "y", "p", "e", ":", " ", "G">>
L_wide    == <<"k", ":", " ", " ", "f">>
L_open    == <<"D", "o", "m", "a", "i", "n", ":", " ", "1", " ", "{">>
L_close   == <<"}">>
L_inline  == <<"A", ":", " ", "x", " ", "{", " ", "B", ":", " ", "t", " ", "}">>
L_bad     == <<"z", "z">>

LineSet ==
    {L_blank, L_comment, L_leaf, L_ls, L_wide, L_open, L_close, L_inline, L_bad}

Files == UNION { [1..n -> LineSet] : n \in 0..MaxLines }

(***************************************************************************)
(* State.                                                                  *)
(***************************************************************************)
VARIABLES
    lines,      \* SolverInpConverter.lines, the lines of the inp file
    nodes,      \* the DataNode objects, in creation order; nodes[1] is data_root
    stack,      \* the active calls of DataNode.parse, innermost last
    pc,         \* "parse", "parsed", "error" (uncaught ValueError), "done"
    xml,        \* the strings written to the xml file, in order
    origin,     \* history: the input line each node was created from (0 for data_root)
    reads,      \* history: how often each line went through the branch of line 140
    skipped     \* history: the blank and comment lines some call has passed over

vars == <<lines, nodes, stack, pc, xml, origin, reads, skipped>>

Root == 1

(***************************************************************************)
(* DataNode.__init__                                                       *)
(***************************************************************************)
init_key(key) ==
    IF key = S_LS_type THEN S_LS ELSE replace(key, " ", <<"_">>)

init_value(value) ==
    IF value \in {S_true, <<"t">>} THEN <<"1">>
    ELSE IF value \in {S_false, <<"f">>} THEN <<"0">>
    ELSE value

\* parent = 0 stands for a node whose parent attribute was never set
DataNode(key, value, level, is_root, parent) ==
    [ key          |-> init_key(key),
      value        |-> init_value(value),
      level        |-> level,
      is_root      |-> is_root,
      parent       |-> parent,
      lines_parsed |-> 0,
      children     |-> <<>> ]

(***************************************************************************)
(* DataNode.update_lines_parsed                                            *)
(***************************************************************************)
\* the parent is not notified: only the node itself counts the line
update_self_only(ns, n) == [ns EXCEPT ![n].lines_parsed = @ + 1]

RECURSIVE update_lines_parsed(_, _)
update_lines_parsed(ns, n) ==
    LET ns1 == [ns EXCEPT ![n].lines_parsed = @ + 1] IN
    IF ns[n].is_root THEN ns1 ELSE update_lines_parsed(ns1, ns[n].parent)

\* line 137 left out: a blank or comment line is not counted
skip_not_counted(ns, n) == ns

\* line 137: a blank or comment line counts for the node of the running call
skip_lines_parsed(ns, n) == [ns EXCEPT ![n].lines_parsed = @ + 1]

(***************************************************************************)
(* The conditions of DataNode.parse on a stripped line.                    *)
(***************************************************************************)
\* a line that is no statement is passed over like a comment
is_skipped_lenient(line) ==
    \/ startswith(line, "#") \/ Len(line) = 0
    \/ (~contains(line, ":") /\ ~contains(line, "{") /\ ~contains(line, "}"))

\* line 135
is_skipped(line) == startswith(line, "#") \/ Len(line) = 0

is_multiline(line) == contains(line, "{") /\ line[Len(line)] = "{"

is_inline(line) == contains(line, "{") /\ line[Len(line)] # "{"

is_break(line) == ~contains(line, "{") /\ contains(line, "}")

is_plain(line) == ~contains(line, "{") /\ ~contains(line, "}")

\* the tuple unpackings of lines 148-149, 161-164 and 181 raise ValueError
\* when the split does not give exactly two parts
raises_ValueError(line) ==
    \/ /\ is_multiline(line)
       /\ \/ Len(split1(line, S_colon)) # 2
          \/ Len(rsplit(split1(line, S_colon)[2], S_space)) # 2
    \/ /\ is_inline(line)
       /\ \/ Len(split(line, S_brace)) # 2
          \/ Len(split1(split(line, S_brace)[1], S_colon)) # 2
          \/ Len(split1(split(line, S_brace)[2], S_colon)) # 2
    \/ /\ is_plain(line)
       /\ Len(split1(line, S_colon)) # 2

\* lines 148-149: key and value of a line that opens a block
multiline_fields(l) ==
    LET kv == split1(l, S_colon)
    IN <<kv[1], rsplit(kv[2], S_space)[1]>>

\* lines 161-165: node key, node value, subnode key, subnode value
inline_fields(l) ==
    LET parts == split(l, S_brace)
        nkv   == split1(parts[1], S_colon)
        skv   == split1(parts[2], S_colon)
    IN <<nkv[1], nkv[2], skv[1], replace(skv[2], "}", <<>>)>>

\* line 181
plain_fields(l) == split1(l, S_colon)

(***************************************************************************)
(* The running call of parse: frame f iterates over lines[f.off+1 ..],     *)
(* f.idx is the index of enumerate, f.node the DataNode (self).            *)
(***************************************************************************)
top  == stack[Len(stack)]
self == top.node
at_end == top.off + top.idx >= Len(lines)
lineno == top.off + top.idx + 1
line == strip(lines[lineno])
\* line 140 left out: every line the loop meets is parsed
unread_unchecked == TRUE

\* line 140
unread == top.idx >= nodes[self].lines_parsed

advance == [stack EXCEPT ![Len(stack)].idx = @ + 1]
return  == SubSeq(stack, 1, Len(stack) - 1)
after(stk) == IF stk = <<>> THEN "parsed" ELSE "parse"

add_child(ns, p, node) ==
    [Append(ns, node) EXCEPT ![p].children = Append(@, Len(ns) + 1)]

Init ==
    /\ lines \in Files
    /\ nodes = << DataNode(S_svFSIFile, S_version0, 0, TRUE, 0) >>
    /\ stack = << [node |-> Root, off |-> 0, idx |-> 0] >>
    /\ pc = "parse"
    /\ xml = <<>>
    /\ origin = <<0>>
    /\ reads = [i \in 1..Len(lines) |-> 0]
    /\ skipped = {}

\* lines 135-138
SkipLine ==
    /\ pc = "parse" /\ ~at_end
    /\ is_skipped(line)
    /\ nodes' = skip_lines_parsed(nodes, self)
    /\ stack' = advance
    /\ skipped' = skipped \cup {lineno}
    /\ UNCHANGED <<lines, pc, xml, origin, reads>>

\* line 140 false: the line was consumed by a nested call
AlreadyParsed ==
    /\ pc = "parse" /\ ~at_end
    /\ ~is_skipped(line)
    /\ ~unread
    /\ stack' = advance
    /\ UNCHANGED <<lines, nodes, pc, xml, origin, reads, skipped>>

\* a tuple unpacking fails: the ValueError is caught nowhere
RaiseValueError ==
    /\ pc = "parse" /\ ~at_end
    /\ ~is_skipped(line)
    /\ unread
    /\ ~is_break(line)
    /\ raises_ValueError(line)
    /\ nodes' = update_lines_parsed(nodes, self)
    /\ reads' = [reads EXCEPT ![lineno] = @ + 1]
    /\ pc' = "error"
    /\ UNCHANGED <<lines, stack, xml, origin, skipped>>

\* lines 146-157
MultilineBlock ==
    /\ pc = "parse" /\ ~at_end
    /\ ~is_skipped(line)
    /\ unread
    /\ is_multiline(line)
    /\ ~raises_ValueError(line)
    /\ LET kv    == multiline_fields(line)
           ns1   == update_lines_parsed(nodes, self)
           curr  == DataNode(kv[1], kv[2], nodes[self].level + 1, FALSE, self)
       IN /\ nodes' = add_child(ns1, self, curr)
          /\ stack' = Append(advance,
                        [node |-> Len(nodes) + 1, off |-> lineno, idx |-> 0])
    /\ origin' = Append(origin, lineno)
    /\ reads' = [reads EXCEPT ![lineno] = @ + 1]
    /\ UNCHANGED <<lines, pc, xml, skipped>>

\* lines 159-173
InlineBlock ==
    /\ pc = "parse" /\ ~at_end
    /\ ~is_skipped(line)
    /\ unread
    /\ is_inline(line)
    /\ ~raises_ValueError(line)
    /\ LET f       == inline_fields(line)
           ns1     == update_lines_parsed(nodes, self)
           curr    == DataNode(f[1], f[2], nodes[self].level + 1, FALSE, self)
           subnode == DataNode(f[3], f[4], nodes[self].level + 2, FALSE,
                               Len(nodes) + 1)
           ns2     == add_child(ns1, self, curr)
       IN nodes' = add_child(ns2, Len(nodes) + 1, subnode)
    /\ stack' = advance
    /\ origin' = origin \o <<lineno, lineno>>
    /\ reads' = [reads EXCEPT ![lineno] = @ + 1]
    /\ UNCHANGED <<lines, pc, xml, skipped>>

\* lines 175-177
BreakBlock ==
    /\ pc = "parse" /\ ~at_end
    /\ ~is_skipped(line)
    /\ unread
    /\ is_break(line)
    /\ nodes' = update_lines_parsed(nodes, self)
    /\ stack' = return
    /\ pc' = after(return)
    /\ reads' = [reads EXCEPT ![lineno] = @ + 1]
    /\ UNCHANGED <<lines, xml, origin, skipped>>

\* lines 179-182
PlainLine ==
    /\ pc = "parse" /\ ~at_end
    /\ ~is_skipped(line)
    /\ unread
    /\ is_plain(line)
    /\ ~raises_ValueError(line)
    /\ LET kv  == plain_fields(line)
           ns1 == update_lines_parsed(nodes, self)
       IN nodes' = add_child(ns1, self,
                      DataNode(kv[1], kv[2], nodes[self].level + 1, FALSE, 0))
    /\ stack' = advance
    /\ origin' = Append(origin, lineno)
    /\ reads' = [reads EXCEPT ![lineno] = @ + 1]
    /\ UNCHANGED <<lines, pc, xml, skipped>>

\* the for loop of line 131 is exhausted: the call returns
EndOfLines ==
    /\ pc = "parse" /\ at_end
    /\ stack' = return
    /\ pc' = after(return)
    /\ UNCHANGED <<lines, nodes, xml, origin, reads, skipped>>


(***************************************************************************)
(* DataNode.format_for_xml.  The xmllist of a node with children is a list *)
(* of strings; the xmllist of a node without children is one string, given *)
(* here as the list holding that string (the caller appends it, lines      *)
(* 229-234).                                                               *)
(***************************************************************************)
\* lines 206-209
opening_tag(n) ==
    IF nodes[n].key \in attr_keys
    THEN tabs(nodes[n].level - 1) \o <<"<">> \o nodes[n].key \o S_space
         \o attr_of(nodes[n].key) \o <<"=", "\"">> \o nodes[n].value
         \o <<"\"", " ", ">", "\n">>
    ELSE tabs(nodes[n].level - 1) \o <<"<">> \o nodes[n].key \o <<">", "\n">>

\* line 237
closing_tag(n) ==
    tabs(nodes[n].level - 1) \o <<"<", "/">> \o nodes[n].key \o <<">", "\n">>

\* line 241
inline_tag(n) ==
    tabs(nodes[n].level - 1) \o <<"<">> \o nodes[n].key \o <<">", " ">>
    \o nodes[n].value \o <<" ", "<", "/">> \o nodes[n].key \o <<">", "\n">>

\* line 201
has_children(n) == Len(nodes[n].children) > 0

\* lines 218-222: the wrapper is closed in front of this child
ends_gen_sim_params(n, child, adding_gen_sim_params) ==
    nodes[n].is_root /\ has_children(child) /\ adding_gen_sim_params

\* line 224 left out: the flag is never cleared
adding_never_cleared(adding_gen_sim_params, ends) == adding_gen_sim_params

\* lines 216, 224: the flag after a child
next_adding(adding_gen_sim_params, ends) == adding_gen_sim_params /\ ~ends

RECURSIVE format_for_xml(_), format_children(_, _, _)
\* lines 217-234, from the i-th child on
format_children(n, i, adding_gen_sim_params) ==
    IF i > Len(nodes[n].children) THEN <<>>
    ELSE LET child == nodes[n].children[i]
             ends  == ends_gen_sim_params(n, child, adding_gen_sim_params)
         IN (IF ends THEN <<S_gsp_close>> ELSE <<>>)
            \o format_for_xml(child)
            \o format_children(n, i + 1, next_adding(adding_gen_sim_params, ends))

format_for_xml(n) ==
    IF has_children(n)
    THEN (IF nodes[n].level = 1 THEN <<S_newline>> ELSE <<>>)
         \o <<opening_tag(n)>>
         \o (IF nodes[n].is_root THEN <<S_newline, S_gsp_open>> ELSE <<>>)
         \o format_children(n, 1, TRUE)
         \o <<closing_tag(n)>>
    ELSE <<inline_tag(n)>>

\* lines 62-63: iterating over a list gives its strings, iterating over a
\* string (the xmllist of a data_root without children) its characters
written(n) ==
    IF has_children(n) THEN format_for_xml(n)
    ELSE [i \in 1..Len(inline_tag(n)) |-> <<inline_tag(n)[i]>>]

\* SolverInpConverter.convert_to_xml, called once parse_inp_file has returned
ConvertToXml ==
    /\ pc = "parsed"
    /\ xml' = <<S_header>> \o written(Root)
    /\ pc' = "done"
    /\ UNCHANGED <<lines, nodes, stack, origin, reads, skipped>>

Next ==
    \/ SkipLine
    \/ AlreadyParsed
    \/ RaiseValueError
    \/ MultilineBlock
    \/ InlineBlock
    \/ BreakBlock
    \/ PlainLine
    \/ EndOfLines
    \/ ConvertToXml

Spec == Init /\ [][Next]_vars

TypeOK ==
    /\ pc \in {"parse", "parsed", "error", "done"}
    /\ Len(origin) = Len(nodes)


(***************************************************************************)
(* Vocabulary of the properties: the block structure of the input file,    *)
(* read off the lines alone.                                               *)
(***************************************************************************)
Lines == 1..Len(lines)

\* a blank line or a # comment line, after trimming
BlankOrComment(l) == l = <<>> \/ l[1] = "#"

stripped(i) == strip(lines[i])

\* the lines of the blocks open after lines 1..k, outermost first, and
\* whether one of these lines is a } that closes no block
RECURSIVE Scan(_)
Scan(k) ==
    IF k = 0 THEN [open |-> <<>>, stray |-> FALSE]
    ELSE LET p == Scan(k - 1)
             l == stripped(k)
         IN IF p.stray \/ BlankOrComment(l) THEN p
            ELSE IF is_multiline(l) THEN [p EXCEPT !.open = Append(@, k)]
            ELSE IF is_break(l)
                 THEN IF p.open = <<>> THEN [p EXCEPT !.stray = TRUE]
                      ELSE [p EXCEPT !.open = SubSeq(@, 1, Len(@) - 1)]
            ELSE p

\* every { is matched by a later }, and every } closes a block
Matched == ~Scan(Len(lines)).stray /\ Scan(Len(lines)).open = <<>>

\* the input ends inside one or more open blocks
Unterminated == ~Scan(Len(lines)).stray /\ Scan(Len(lines)).open # <<>>

\* every line has one of the shapes of the grammar
GrammarShaped ==
    \A i \in Lines : BlankOrComment(stripped(i)) \/ ~raises_ValueError(stripped(i))

\* the line of the innermost block open at line i, 0 at root level
Encl(i) ==
    LET o == Scan(i - 1).open IN IF o = <<>> THEN 0 ELSE o[Len(o)]

\* the lines that define a node
Defines(i) ==
    /\ ~BlankOrComment(stripped(i))
    /\ ~is_break(stripped(i))

NodeIds == 1..Len(nodes)

NodesFrom(i) == { n \in NodeIds : origin[n] = i }

\* the node of the block opened at line b (data_root for b = 0)
BlockNode(b) == CHOOSE n \in NodesFrom(b) : \A m \in NodesFrom(b) : n <= m

IsChild(p, n) == \E j \in 1..Len(nodes[p].children) : nodes[p].children[j] = n

\* the children of every node are in the order of their lines
DocumentOrder ==
    \A p \in NodeIds : \A j, k \in 1..Len(nodes[p].children) :
        j < k => /\ nodes[p].children[j] < nodes[p].children[k]
                 /\ origin[nodes[p].children[j]] <= origin[nodes[p].children[k]]

\* line i has given exactly its node (and, for a one-line block, that
\* node's single leaf), hung under the node of the block that encloses i
PlacedInBlock(i) ==
    LET own == NodesFrom(i)
        n   == BlockNode(i)
        p   == BlockNode(Encl(i))
    IN /\ reads[i] = 1
       /\ Cardinality(own) = IF is_inline(stripped(i)) THEN 2 ELSE 1
       /\ IsChild(p, n)
       /\ \A q \in NodeIds : IsChild(q, n) => q = p
       /\ nodes[n].level = nodes[p].level + 1
       /\ is_inline(stripped(i)) =>
             /\ nodes[n].children = <<n + 1>>
             /\ nodes[n + 1].children = <<>>
             /\ nodes[n + 1].level = nodes[n].level + 1
             /\ \A q \in NodeIds : IsChild(q, n + 1) => q = n

\* the tree when parse has returned: one node per defining line, under its block
TreeFollowsBlocks ==
    /\ \A i \in Lines : ~BlankOrComment(stripped(i)) => reads[i] = 1
    /\ \A i \in Lines : Defines(i) => PlacedInBlock(i)
    /\ \A n \in NodeIds : n # Root => origin[n] \in Lines /\ Defines(origin[n])

NeverReread == \A i \in Lines : reads[i] <= 1

(***************************************************************************)
(* C1: for an input in which every { is matched and every line has a       *)
(* grammar shape, parse raises no error and reads no line twice; when it   *)
(* has returned, every non-blank, non-comment line was read exactly once,  *)
(* the lines between a `key: value {` line and its } have given            *)
(* descendants of that block's node only, the line after the } has given   *)
(* the next child of the block's parent, and children are in document      *)
(* order.                                                                  *)
(***************************************************************************)
C1_EachLineOnce ==
    (Matched /\ GrammarShaped) =>
        /\ pc # "error"
        /\ NeverReread
        /\ DocumentOrder
        /\ pc \in {"parsed", "done"} => TreeFollowsBlocks

\* a line inside a closed block and a line after its } have both given nodes
C1_Witness ==
    /\ pc = "parsed" /\ Matched /\ GrammarShaped
    /\ \E b, i, c, j \in Lines :
          /\ b < i /\ i < c /\ c < j
          /\ is_multiline(stripped(b)) /\ Encl(i) = b /\ Defines(i)
          /\ is_break(stripped(c)) /\ Encl(c) = b
          /\ Defines(j) /\ Encl(j) = 0
          /\ IsChild(BlockNode(b), BlockNode(i))
          /\ IsChild(Root, BlockNode(j))


(***************************************************************************)
(* The tree a parser with an explicit cursor builds from lines that hold   *)
(* no blank and no comment line: one pass, the open blocks kept on a       *)
(* stack.  It stops at a line that raises and at a } met at root level.    *)
(***************************************************************************)
Shape(ns) ==
    [n \in 1..Len(ns) |->
        [key |-> ns[n].key, value |-> ns[n].value,
         level |-> ns[n].level, children |-> ns[n].children]]

NonBlank == SelectSeq(lines, LAMBDA l : ~BlankOrComment(strip(l)))

RECURSIVE CursorParse(_, _)
CursorParse(ls, k) ==
    IF k = 0
    THEN [tree   |-> << DataNode(S_svFSIFile, S_version0, 0, TRUE, 0) >>,
          open   |-> <<Root>>,
          halted |-> FALSE,
          failed |-> FALSE]
    ELSE LET p   == CursorParse(ls, k - 1)
             l   == strip(ls[k])
             cur == p.open[Len(p.open)]
             lvl == p.tree[cur].level
             new == Len(p.tree) + 1
         IN IF p.halted THEN p
            ELSE IF is_break(l)
                 THEN IF Len(p.open) = 1 THEN [p EXCEPT !.halted = TRUE]
                      ELSE [p EXCEPT !.open = SubSeq(@, 1, Len(@) - 1)]
            ELSE IF raises_ValueError(l)
                 THEN [p EXCEPT !.halted = TRUE, !.failed = TRUE]
            ELSE IF is_multiline(l)
                 THEN LET kv == multiline_fields(l)
                      IN [p EXCEPT
                            !.tree = add_child(@, cur,
                                       DataNode(kv[1], kv[2], lvl + 1, FALSE, cur)),
                            !.open = Append(@, new)]
            ELSE IF is_inline(l)
                 THEN LET f == inline_fields(l)
                      IN [p EXCEPT
                            !.tree = add_child(
                                       add_child(@, cur,
                                          DataNode(f[1], f[2], lvl + 1, FALSE, cur)),
                                       new,
                                       DataNode(f[3], f[4], lvl + 2, FALSE, new))]
            ELSE LET kv == plain_fields(l)
                 IN [p EXCEPT
                       !.tree = add_child(@, cur,
                                  DataNode(kv[1], kv[2], lvl + 1, FALSE, 0))]

WithoutBlanks == CursorParse(NonBlank, Len(NonBlank))

(***************************************************************************)
(* C2: blank lines and comment lines, wherever they stand, give no node    *)
(* and do not change the tree: when parse is over (returned or raised),    *)
(* the nodes, their keys, values, levels and children in order are those   *)
(* of the input with the blank and comment lines removed, and parse raises *)
(* for the one exactly if it raises for the other.  (The input without     *)
(* those lines is itself one of the inputs, so both sides are the tree     *)
(* WithoutBlanks.)                                                         *)
(***************************************************************************)
C2_BlankLinesIgnored ==
    pc \in {"parsed", "error", "done"} =>
        /\ Shape(nodes) = Shape(WithoutBlanks.tree)
        /\ (pc = "error") = WithoutBlanks.failed
        /\ \A n \in NodeIds : n # Root => ~BlankOrComment(stripped(origin[n]))

\* a blank or comment line inside a block, directly before its }, and a
\* node from the line after the }
C2_Witness ==
    /\ pc = "parsed"
    /\ \E b, c \in Lines :
          /\ b < c - 1
          /\ is_multiline(stripped(b)) /\ NodesFrom(b) # {}
          /\ BlankOrComment(stripped(c - 1)) /\ Encl(c - 1) = b
          /\ is_break(stripped(c)) /\ Encl(c) = b
          /\ c + 1 \in Lines
          /\ NodesFrom(c + 1) # {}
          /\ Len(NonBlank) < Len(lines)

(***************************************************************************)
(* C9 as stated: during parsing, data_root.lines_parsed is the number of   *)
(* input lines consumed so far by the whole call stack, the blank and      *)
(* comment lines passed by a nested call included.                         *)
(***************************************************************************)
Consumed == { i \in Lines : reads[i] > 0 } \cup skipped

C9_RootCountsEveryLine ==
    pc = "parse" => nodes[Root].lines_parsed = Cardinality(Consumed)

(***************************************************************************)
(* C9 as amended: a non-blank, non-comment line that a call consumes is    *)
(* counted in the same step by the node of that call and by every ancestor *)
(* up to data_root; a blank or comment line is counted only by the node    *)
(* whose own loop passes over it.  Hence for every active call, the        *)
(* lines_parsed of its node is the number of non-blank, non-comment lines  *)
(* consumed so far in its slice by the whole stack plus the number of      *)
(* blank and comment lines its own loop has passed.                        *)
(***************************************************************************)
C9_CountPerCall ==
    pc = "parse" =>
        \A d \in 1..Len(stack) :
            LET f == stack[d] IN
            nodes[f.node].lines_parsed =
                Cardinality({ i \in Lines : i > f.off /\ reads[i] > 0 })
                + Cardinality({ i \in Lines : /\ i > f.off
                                              /\ i <= f.off + f.idx
                                              /\ BlankOrComment(stripped(i)) })

\* a nested call has passed a blank or comment line that data_root has not
\* counted, and has consumed a line after it
C9_Witness ==
    /\ pc = "parse"
    /\ Len(stack) >= 2
    /\ \E i \in skipped : i > top.off /\ \E j \in Lines : j > i /\ reads[j] > 0
    /\ nodes[Root].lines_parsed < Cardinality(Consumed)


(***************************************************************************)
(* The work parse has left: the lines its active loops have still to       *)
(* pass, with a weight on the lines no call has parsed yet.                *)
(***************************************************************************)
RECURSIVE LoopsLeft(_)
LoopsLeft(d) ==
    IF d = 0 THEN 0
    ELSE (Len(lines) + 1 - (stack[d].off + stack[d].idx)) + LoopsLeft(d - 1)

WorkLeft ==
    LoopsLeft(Len(stack))
    + (Len(lines) + 2) * Cardinality({ i \in Lines : reads[i] = 0 })

\* while parse runs, one of its steps can be taken
CanStep ==
    pc = "parse" =>
        /\ stack # <<>>
        /\ \/ at_end
           \/ is_skipped(line)
           \/ ~unread
           \/ is_break(line)
           \/ raises_ValueError(line)
           \/ is_multiline(line) \/ is_inline(line) \/ is_plain(line)

(***************************************************************************)
(* C10: when the input ends inside open `key: value {` blocks, parse       *)
(* raises no error and returns (every step of parse lowers WorkLeft, which *)
(* is never negative, and parse can always step); every open block's node *)
(* keeps the children parsed so far, as if the end of the input closed the *)
(* blocks, and no line is parsed a second time once the nested calls have  *)
(* returned.                                                               *)
(***************************************************************************)
C10_EndOfInputCloses ==
    /\ []((Unterminated /\ GrammarShaped) =>
             /\ pc # "error"
             /\ NeverReread
             /\ DocumentOrder
             /\ WorkLeft >= 0
             /\ CanStep
             /\ pc \in {"parsed", "done"} => TreeFollowsBlocks)
    /\ [][(Unterminated /\ GrammarShaped /\ pc = "parse") =>
             WorkLeft' < WorkLeft]_vars

\* parse has returned from two blocks left open, the inner one with a child
C10_Witness ==
    /\ pc = "parsed" /\ Unterminated /\ GrammarShaped
    /\ Len(Scan(Len(lines)).open) >= 2
    /\ \E i \in Lines :
          /\ Defines(i)
          /\ Encl(i) = Scan(Len(lines)).open[2]
          /\ IsChild(BlockNode(Encl(i)), BlockNode(i))

(***************************************************************************)
(* Malformed lines.                                                        *)
(***************************************************************************)
Malformed(i) ==
    LET l == stripped(i)
    IN /\ ~BlankOrComment(l)
       /\ ~contains(l, ":") /\ ~contains(l, "{") /\ ~contains(l, "}")

\* what a malformed line at m means for the conversion
FatalAt(m) ==
    /\ pc \in {"parse", "error"}
    /\ xml = <<>>
    /\ \A n \in NodeIds : origin[n] < m
    /\ pc = "error" => lineno <= m
    /\ (pc = "error" /\ \A j \in 1..(m - 1) : ~Malformed(j)) =>
           lineno = m /\ reads[m] = 1

(***************************************************************************)
(* C8 as stated: a non-blank, non-comment line without `:`, `{` and `}`    *)
(* is fatal wherever it stands: parse fails at that line, no node is       *)
(* created for it or for a later line, and no output is written.           *)
(***************************************************************************)
C8_MalformedAlwaysFatal ==
    \A m \in Lines : Malformed(m) => FatalAt(m)

(***************************************************************************)
(* C8 as amended: the same, for a malformed line that no } at root level   *)
(* precedes.  (A } read by data_root's own loop ends parse at line 177;    *)
(* the lines after it are never read.)                                     *)
(***************************************************************************)
C8_MalformedFatalWhenReached ==
    \A m \in Lines : (Malformed(m) /\ ~Scan(m - 1).stray) => FatalAt(m)

\* parse has failed at a malformed line inside a block, after creating nodes
C8_Witness ==
    /\ pc = "error"
    /\ Len(stack) >= 2
    /\ Malformed(lineno)
    /\ Len(nodes) >= 3


(***************************************************************************)
(* Vocabulary of the serializer properties.                                *)
(***************************************************************************)
RECURSIVE Count(_, _)
Count(seq, x) ==
    IF seq = <<>> THEN 0
    ELSE (IF Head(seq) = x THEN 1 ELSE 0) + Count(Tail(seq), x)

RootChildren == nodes[Root].children

IsContainer(n) == nodes[n].children # <<>>

\* the first child of data_root that has children, 0 when there is none
FirstContainer ==
    IF \E j \in 1..Len(RootChildren) : IsContainer(RootChildren[j])
    THEN CHOOSE j \in 1..Len(RootChildren) :
            /\ IsContainer(RootChildren[j])
            /\ \A k \in 1..(j - 1) : ~IsContainer(RootChildren[k])
    ELSE 0

\* the output of the children from..to of data_root, one after the other
RECURSIVE Emitted(_, _)
Emitted(from, to) ==
    IF from > to THEN <<>>
    ELSE format_for_xml(RootChildren[from]) \o Emitted(from + 1, to)

(***************************************************************************)
(* C3: for a data_root with children, whatever their mix, the output holds *)
(* the <GeneralSimulationParameters> opening tag exactly once, after       *)
(* data_root's opening tag, and the closing tag exactly once, after the    *)
(* opening tag.                                                            *)
(***************************************************************************)
C3_WrapperOpenedAndClosedOnce ==
    (pc = "done" /\ RootChildren # <<>>) =>
        /\ Count(xml, S_gsp_open) = 1
        /\ Count(xml, S_gsp_close) = 1
        /\ \E i, j, k \in 1..Len(xml) :
              /\ i < j /\ j < k
              /\ xml[i] = opening_tag(Root)
              /\ xml[j] = S_gsp_open
              /\ xml[k] = S_gsp_close

(***************************************************************************)
(* C4: when data_root has a child with children, its output is: the        *)
(* header, data_root's opening tag, a newline, the wrapper's opening tag,  *)
(* the leaf children before the first child with children in document      *)
(* order, the wrapper's closing tag, then that child and every later       *)
(* child, leaf or not, in document order, then data_root's closing tag.    *)
(***************************************************************************)
C4_WrapperHoldsLeadingLeaves ==
    (pc = "done" /\ FirstContainer # 0) =>
        xml = <<S_header, opening_tag(Root), S_newline, S_gsp_open>>
              \o Emitted(1, FirstContainer - 1)
              \o <<S_gsp_close>>
              \o Emitted(FirstContainer, Len(RootChildren))
              \o <<closing_tag(Root)>>

\* data_root has a leaf, then a child with children, then a second child
\* with children and a later leaf
C4_Witness ==
    /\ pc = "done"
    /\ FirstContainer = 2
    /\ Len(RootChildren) = 4
    /\ IsContainer(RootChildren[3])
    /\ ~IsContainer(RootChildren[4])
    /\ Count(xml, S_gsp_close) = 1

(***************************************************************************)
(* C5: every node parsed from a line whose key is in key_to_attr is        *)
(* written with its value as an attribute on the opening tag,              *)
(* <key attr="value" >, and not as the inline text <key> value </key>,     *)
(* whether or not it has children.                                         *)
(***************************************************************************)
AttributeForm(n) ==
    tabs(nodes[n].level - 1) \o <<"<">> \o nodes[n].key \o <<" ">>
    \o attr_of(nodes[n].key) \o <<"=", "\"">> \o nodes[n].value
    \o <<"\"", " ", ">", "\n">>

InlineForm(n) ==
    tabs(nodes[n].level - 1) \o <<"<">> \o nodes[n].key \o <<">", " ">>
    \o nodes[n].value \o <<" ", "<", "/">> \o nodes[n].key \o <<">", "\n">>

C5_AttributeKeysAsAttributes ==
    (pc = "done" /\ RootChildren # <<>>) =>
        \A n \in NodeIds :
            (n # Root /\ nodes[n].key \in attr_keys) =>
                /\ \E j \in 1..Len(xml) : xml[j] = AttributeForm(n)
                /\ \A j \in 1..Len(xml) : xml[j] # InlineForm(n)

(***************************************************************************)
(* The key and the value a line states: the text before the first colon    *)
(* and the text after it, without the surrounding blanks.                  *)
(***************************************************************************)
Trimmed(t) == strip(t)

StatedKey(t) ==
    LET c == find(t, <<":">>, 1) IN Trimmed(SubSeq(t, 1, c - 1))

StatedValue(t) ==
    LET c == find(t, <<":">>, 1) IN Trimmed(SubSeq(t, c + 1, Len(t)))

\* the key of a node: LS for `LS type`, else every space an underscore
NodeKey(k) ==
    IF k = S_LS_type THEN S_LS
    ELSE [i \in 1..Len(k) |-> IF k[i] = " " THEN "_" ELSE k[i]]

\* the value of a node: 1 for true and t, 0 for false and f, else unchanged
NodeValue(v) ==
    IF v = S_true \/ v = <<"t">> THEN <<"1">>
    ELSE IF v = S_false \/ v = <<"f">> THEN <<"0">>
    ELSE v

\* the text of a one-line block before its { and the text between { and }
BlockHead(l) == SubSeq(l, 1, find(l, <<"{">>, 1) - 1)

BlockBody(l) ==
    LET body == SubSeq(l, find(l, <<"{">>, 1) + 1, Len(l))
    IN IF body # <<>> /\ body[Len(body)] = "}"
       THEN SubSeq(body, 1, Len(body) - 1) ELSE body

(***************************************************************************)
(* C6: a line `A: x { B: y }` gives one child with key A and value x at    *)
(* level+1 that holds exactly one leaf with key B and value y at level+2,  *)
(* keys and values normalised as for any node.                             *)
(***************************************************************************)
C6_OneLineBlock ==
    \A i \in Lines :
        (is_inline(stripped(i)) /\ reads[i] > 0 /\ NodesFrom(i) # {}) =>
            LET l == stripped(i)
                n == BlockNode(i)
            IN /\ Cardinality(NodesFrom(i)) = 2
               /\ nodes[n].key = NodeKey(StatedKey(BlockHead(l)))
               /\ nodes[n].value = NodeValue(StatedValue(BlockHead(l)))
               /\ nodes[n].children = <<n + 1>>
               /\ nodes[n + 1].children = <<>>
               /\ nodes[n + 1].level = nodes[n].level + 1
               /\ nodes[n + 1].key = NodeKey(StatedKey(BlockBody(l)))
               /\ nodes[n + 1].value = NodeValue(StatedValue(BlockBody(l)))

(***************************************************************************)
(* C7: a line `key: value` without braces gives exactly one leaf at        *)
(* level+1 whose key is LS for `LS type` and else the line's key with      *)
(* every space an underscore, and whose value is 1 for true and t, 0 for   *)
(* false and f, else the line's value, however many spaces follow the      *)
(* colon.                                                                  *)
(***************************************************************************)
C7_PlainLineLeaf ==
    \A i \in Lines :
        (is_plain(stripped(i)) /\ ~Malformed(i) /\ reads[i] > 0) =>
            LET l == stripped(i)
                n == BlockNode(i)
            IN /\ Cardinality(NodesFrom(i)) = 1
               /\ nodes[n].children = <<>>
               /\ nodes[n].level = nodes[BlockNode(Encl(i))].level + 1
               /\ nodes[n].key = NodeKey(StatedKey(l))
               /\ nodes[n].value = NodeValue(StatedValue(l))

=============================================================================
